---- MODULE Spec2Model ----
(***************************************************************************)
(* ECSchnorr (ecpy/ecschnorr.py): the Schnorr signer with its four         *)
(* variants ISO, ISOx, BSI and LIBSECP.  sign, sign_k, _do_sign and verify *)
(* are translated from the source; the curve, point, hasher, random and    *)
(* codec collaborators are modelled from their contracts on two small      *)
(* Weierstrass curves whose generator has prime order 13.                  *)
(***************************************************************************)
EXTENDS Integers, Sequences, FiniteSets, TLC

VARIABLES signer, pc, call, i, tries, ret, frame, memo

vars == <<signer, pc, call, i, tries, ret, frame, memo>>

(***************************************************************************)
(* Bounds of the model.                                                    *)
(***************************************************************************)
\* private scalars are 1..MaxD
MaxD == 2
\* messages are the one-byte strings <<0>> .. <<MaxMsgByte>>
MaxMsgByte == 1
\* the hashers are 0..MaxHasher, their digests are below HashMod
MaxHasher == 2
HashMod == 16

\* the value Python's None takes where an integer is expected
None == -1

(***************************************************************************)
(* Curves.  size is the bit length of the field, as in ecpy.curves.        *)
(***************************************************************************)
CurveNames == {"P8", "P9"}

CurveOf ==
    [c \in CurveNames |->
        IF c = "P8"
        THEN [field |-> 139, a |-> 0, b |-> 1, order |-> 13, size |-> 8,
              generator |-> [x |-> 3, y |-> 81, inf |-> FALSE]]
        ELSE [field |-> 311, a |-> 0, b |-> 1, order |-> 13, size |-> 9,
              generator |-> [x |-> 288, y |-> 213, inf |-> FALSE]]]

Infinity == [x |-> 0, y |-> 0, inf |-> TRUE]

\* the inverse of z modulo the prime p
InvMod(z, p) == CHOOSE v \in 1..(p - 1) : (v * z) % p = 1

\* affine addition on y^2 = x^3 + a*x + b over the field of the curve
AffineAdd(P, Q, cv) ==
    LET p == cv.field IN
    IF P.inf THEN Q
    ELSE IF Q.inf THEN P
    ELSE IF P.x = Q.x /\ (P.y + Q.y) % p = 0 THEN Infinity
    ELSE LET l == IF P = Q
                  THEN ((3 * P.x * P.x + cv.a) * InvMod((2 * P.y) % p, p)) % p
                  ELSE (((Q.y - P.y) % p) * InvMod((Q.x - P.x) % p, p)) % p
             x == (l * l - P.x - Q.x) % p
         IN  [x |-> x, y |-> (l * (P.x - x) - P.y) % p, inf |-> FALSE]

\* the multiples 1*G .. m*G of the generator of curve c, as a sequence
RECURSIVE MultiplesUpTo(_, _)
MultiplesUpTo(c, m) ==
    IF m = 1 THEN <<CurveOf[c].generator>>
    ELSE CHOOSE r \in {Append(t, AffineAdd(t[m - 1], CurveOf[c].generator, CurveOf[c])) :
                          t \in {MultiplesUpTo(c, m - 1)}} : TRUE

\* 1*G .. 12*G on each curve, tabulated
MultiplesP8 ==
    <<[x |-> 3, y |-> 81, inf |-> FALSE], [x |-> 106, y |-> 64, inf |-> FALSE], [x |-> 126, y |-> 81, inf |-> FALSE],
      [x |-> 10, y |-> 58, inf |-> FALSE], [x |-> 29, y |-> 64, inf |-> FALSE], [x |-> 4, y |-> 64, inf |-> FALSE],
      [x |-> 4, y |-> 75, inf |-> FALSE], [x |-> 29, y |-> 75, inf |-> FALSE], [x |-> 10, y |-> 81, inf |-> FALSE],
      [x |-> 126, y |-> 58, inf |-> FALSE], [x |-> 106, y |-> 75, inf |-> FALSE], [x |-> 3, y |-> 58, inf |-> FALSE]>>

MultiplesP9 ==
    <<[x |-> 288, y |-> 213, inf |-> FALSE], [x |-> 224, y |-> 297, inf |-> FALSE], [x |-> 249, y |-> 144, inf |-> FALSE],
      [x |-> 9, y |-> 161, inf |-> FALSE], [x |-> 177, y |-> 112, inf |-> FALSE], [x |-> 134, y |-> 42, inf |-> FALSE],
      [x |-> 134, y |-> 269, inf |-> FALSE], [x |-> 177, y |-> 199, inf |-> FALSE], [x |-> 9, y |-> 150, inf |-> FALSE],
      [x |-> 249, y |-> 167, inf |-> FALSE], [x |-> 224, y |-> 14, inf |-> FALSE], [x |-> 288, y |-> 98, inf |-> FALSE]>>

\* the tables are the multiples the addition law gives, and 13*G is infinity
TablesComputed ==
    /\ MultiplesP8 = MultiplesUpTo("P8", CurveOf["P8"].order - 1)
    /\ MultiplesP9 = MultiplesUpTo("P9", CurveOf["P9"].order - 1)
    /\ AffineAdd(MultiplesP8[12], CurveOf["P8"].generator, CurveOf["P8"]) = Infinity
    /\ AffineAdd(MultiplesP9[12], CurveOf["P9"].generator, CurveOf["P9"]) = Infinity

\* k*G for k in 0..order-1
Multiple(c, k) ==
    IF k = 0 THEN Infinity
    ELSE IF c = "P8" THEN MultiplesP8[k] ELSE MultiplesP9[k]

\* the k with P = k*G (every point of the model lies in the group of G)
LogOf(P, c) == CHOOSE k \in 0..(CurveOf[c].order - 1) : Multiple(c, k) = P

\* Point.__mul__ / __rmul__, __add__, __neg__, __sub__
PointMul(k, P, c) == Multiple(c, (k * LogOf(P, c)) % CurveOf[c].order)
PointAdd(P, Q, c) == Multiple(c, (LogOf(P, c) + LogOf(Q, c)) % CurveOf[c].order)
PointNeg(P, c) == Multiple(c, (0 - LogOf(P, c)) % CurveOf[c].order)
PointSub(P, Q, c) == PointAdd(P, PointNeg(Q, c), c)

\* the public key of the private scalar d
PublicKeyOf(d, c) == PointMul(d, CurveOf[c].generator, c)

(***************************************************************************)
(* Bytes, hasher and codec.                                                *)
(***************************************************************************)
RECURSIVE Pow(_, _)
Pow(b, e) == IF e = 0 THEN 1 ELSE b * Pow(b, e - 1)

\* int.to_bytes(size, 'big') raises OverflowError unless 0 <= v < 256^size
FitsBytes(v, size) == v >= 0 /\ v < Pow(256, size)
ToBytes(v, size) == [j \in 1..size |-> (v \div Pow(256, size - j)) % 256]

\* int.from_bytes(b, 'big')
RECURSIVE IntFromBytes(_)
IntFromBytes(b) ==
    IF b = <<>> THEN 0
    ELSE 256 * IntFromBytes(SubSeq(b, 1, Len(b) - 1)) + b[Len(b)]

\* the hashers a signer can be built with, 0..MaxHasher: hasher h gives the
\* one-byte digest (h % 2 + (h \div 2) * poly(input)) % HashMod, so hashers
\* 0 and 1 are the constant digests 0 and 1
Hashers == 0..MaxHasher

RECURSIVE Poly(_, _)
Poly(acc, buf) ==
    IF buf = <<>> THEN acc
    ELSE Poly((3 * acc + Head(buf) + 1) % HashMod, Tail(buf))

\* self._hasher(): a new, empty accumulator
NewHasher == <<>>
\* hasher.update(data)
Update(buf, data) == buf \o data
\* hasher.digest()
Digest(hasher, buf) == << ((hasher % 2) + (hasher \div 2) * Poly(0, buf)) % HashMod >>

\* formatters.list_formats(), encode_sig, decode_sig
Formats == {"ITUPLE"}
Malformed == [fmt |-> "BAD", r |-> 0, s |-> 0]
EncodeSig(r, s, fmt) == [fmt |-> fmt, r |-> r, s |-> s]
DecodeSig(sig, fmt) ==
    IF sig.fmt = fmt THEN <<sig.r, sig.s>> ELSE <<None, None>>

(***************************************************************************)
(* The outcomes of a call and the locals it leaves.                        *)
(***************************************************************************)
NoSig == [fmt |-> "NONE", r |-> 0, s |-> 0]
NoPoint == [x |-> 0, y |-> 0, inf |-> FALSE]

Pending == [kind |-> "pending", exc |-> "", sig |-> NoSig, b |-> FALSE]
Raise(e) == [kind |-> "raise", exc |-> e, sig |-> NoSig, b |-> FALSE]
ReturnNone == [kind |-> "None", exc |-> "", sig |-> NoSig, b |-> FALSE]
ReturnSig(sg) == [kind |-> "sig", exc |-> "", sig |-> sg, b |-> FALSE]
ReturnBool(v) == [kind |-> "bool", exc |-> "", sig |-> NoSig, b |-> v]

\* locals of _do_sign and verify: the point, the nonce in use, the digest
\* integer, r and s, the accumulator, and which steps were reached
EmptyFrame ==
    [Q |-> NoPoint, k |-> 0, h |-> 0, r |-> 0, s |-> 0, buf |-> <<>>,
     arith |-> FALSE, hashed |-> FALSE]

NoKey == [curve |-> "None", d |-> 0, W |-> NoPoint]
NoCall == [op |-> "none", msg |-> <<>>, key |-> NoKey, k |-> 0, sig |-> NoSig, own |-> "none"]

(***************************************************************************)
(* _do_sign, one operator per branch.  Each yields the outcome of the call *)
(* and its locals.                                                         *)
(***************************************************************************)
Out(rt, fr) == [ret |-> rt, frame |-> fr]

\* lines 103-112
SignISO(sg, msg, d, k, Q, n, size) ==
    LET fr0 == [EmptyFrame EXCEPT !.Q = Q, !.k = k, !.arith = TRUE,
                                  !.hashed = TRUE, !.buf = NewHasher]
    IN  IF ~FitsBytes(Q.x, size) \/ ~FitsBytes(Q.y, size)
        THEN Out(Raise("OverflowError"), fr0)
        ELSE LET xQ == ToBytes(Q.x, size)
                 yQ == ToBytes(Q.y, size)
                 buf == Update(fr0.buf, xQ \o yQ \o msg)
                 r == IntFromBytes(Digest(sg.hasher, buf)) % n
                 s == (k + r * d) % n
                 fr == [fr0 EXCEPT !.buf = buf, !.r = r, !.s = s]
             IN  IF r = 0 \/ s = 0
                 THEN Out(ReturnNone, fr)
                 ELSE Out(ReturnSig(EncodeSig(r, s, sg.fmt)), fr)

\* lines 114-122
SignISOx(sg, msg, d, k, Q, n, size) ==
    LET fr0 == [EmptyFrame EXCEPT !.Q = Q, !.k = k, !.arith = TRUE,
                                  !.hashed = TRUE, !.buf = NewHasher]
    IN  IF ~FitsBytes(Q.x, size)
        THEN Out(Raise("OverflowError"), fr0)
        ELSE LET xQ == ToBytes(Q.x, size)
                 buf == Update(fr0.buf, xQ \o msg)
                 r == IntFromBytes(Digest(sg.hasher, buf)) % n
                 s == (k + r * d) % n
                 fr == [fr0 EXCEPT !.buf = buf, !.r = r, !.s = s]
             IN  IF r = 0 \/ s = 0
                 THEN Out(ReturnNone, fr)
                 ELSE Out(ReturnSig(EncodeSig(r, s, sg.fmt)), fr)

\* lines 124-132
SignBSI(sg, msg, d, k, Q, n, size) ==
    LET fr0 == [EmptyFrame EXCEPT !.Q = Q, !.k = k, !.arith = TRUE,
                                  !.hashed = TRUE, !.buf = NewHasher]
    IN  IF ~FitsBytes(Q.x % n, size)
        THEN Out(Raise("OverflowError"), fr0)
        ELSE LET xQ == ToBytes(Q.x % n, size)
                 buf == Update(fr0.buf, msg \o xQ)
                 r == IntFromBytes(Digest(sg.hasher, buf)) % n
                 s == (k - r * d) % n
                 fr == [fr0 EXCEPT !.buf = buf, !.r = r, !.s = s]
             IN  IF r = 0 \/ s = 0
                 THEN Out(ReturnNone, fr)
                 ELSE Out(ReturnSig(EncodeSig(r, s, sg.fmt)), fr)

\* line 135: the nonce after the parity test on Q.y
ParityNonce(k, Q, n) == IF Q.y % 2 = 1 THEN n - k ELSE k

\* lines 134-145
SignLIBSECP(sg, msg, d, k0, Q0, n, size, c) ==
    LET k == ParityNonce(k0, Q0, n)
        Q == IF Q0.y % 2 = 1 THEN PointMul(k, CurveOf[c].generator, c) ELSE Q0
        fr0 == [EmptyFrame EXCEPT !.Q = Q, !.k = k, !.arith = TRUE,
                                  !.hashed = TRUE, !.buf = NewHasher]
    IN  IF ~FitsBytes(Q.x, size)
        THEN Out(Raise("OverflowError"), fr0)
        ELSE LET rb == ToBytes(Q.x, size)
                 buf == Update(fr0.buf, rb \o msg)
                 h == IntFromBytes(Digest(sg.hasher, buf))
                 r == Q.x
                 s == (k - h * d) % n
                 fr1 == [fr0 EXCEPT !.buf = buf, !.h = h]
             IN  IF h = 0 \/ h > n
                 THEN Out(ReturnNone, fr1)
                 ELSE Out(ReturnSig(EncodeSig(r, s, sg.fmt)),
                          [fr1 EXCEPT !.r = r, !.s = s])

\* lines 93-147
DoSign(sg, msg, pv_key, k) ==
    IF pv_key.curve = "None"
    THEN Out(Raise("ECPyException"), EmptyFrame)
    ELSE LET c == pv_key.curve
             n == CurveOf[c].order
             G == CurveOf[c].generator
             size == CurveOf[c].size \div 8
             Q == PointMul(k, G, c)
         IN  CASE sg.option = "ISO" -> SignISO(sg, msg, pv_key.d, k, Q, n, size)
               [] sg.option = "ISOx" -> SignISOx(sg, msg, pv_key.d, k, Q, n, size)
               [] sg.option = "BSI" -> SignBSI(sg, msg, pv_key.d, k, Q, n, size)
               [] sg.option = "LIBSECP" ->
                      SignLIBSECP(sg, msg, pv_key.d, k, Q, n, size, c)

(***************************************************************************)
(* verify, one operator per branch.  The point at infinity is a Point like *)
(* the others and reads x = y = 0.                                         *)
(***************************************************************************)
\* the range check with s > n in place of s > n - 1
RangeRejectLoose(r, s, n, size) ==
    \/ r = None
    \/ r > Pow(256, size) - 1
    \/ s = 0
    \/ s > n

\* lines 163-166
RangeReject(r, s, n, size) ==
    \/ r = None
    \/ r > Pow(256, size) - 1
    \/ s = 0
    \/ s > n - 1

\* lines 170-177
VerifyISO(sg, msg, r, s, W, c) ==
    LET n == CurveOf[c].order
        size == CurveOf[c].size \div 8
        rW == PointMul(r, W, c)
        Q == PointSub(PointMul(s, CurveOf[c].generator, c), rW, c)
        fr0 == [EmptyFrame EXCEPT !.r = r, !.s = s, !.arith = TRUE, !.hashed = TRUE,
                                  !.buf = NewHasher]
        fr1 == [fr0 EXCEPT !.Q = Q]
    IN  IF ~FitsBytes(Q.x, size) \/ ~FitsBytes(Q.y, size)
        THEN Out(Raise("OverflowError"), fr1)
        ELSE LET buf == Update(fr1.buf, ToBytes(Q.x, size) \o ToBytes(Q.y, size) \o msg)
                 v == IntFromBytes(Digest(sg.hasher, buf)) % n
             IN  Out(ReturnBool(v = r), [fr1 EXCEPT !.buf = buf, !.h = v])

\* lines 179-185
VerifyISOx(sg, msg, r, s, W, c) ==
    LET n == CurveOf[c].order
        size == CurveOf[c].size \div 8
        rW == PointMul(r, W, c)
        Q == PointSub(PointMul(s, CurveOf[c].generator, c), rW, c)
        fr0 == [EmptyFrame EXCEPT !.r = r, !.s = s, !.arith = TRUE, !.hashed = TRUE,
                                  !.buf = NewHasher]
        fr1 == [fr0 EXCEPT !.Q = Q]
    IN  IF ~FitsBytes(Q.x, size)
        THEN Out(Raise("OverflowError"), fr1)
        ELSE LET buf == Update(fr1.buf, ToBytes(Q.x, size) \o msg)
                 v == IntFromBytes(Digest(sg.hasher, buf)) % n
             IN  Out(ReturnBool(v = r), [fr1 EXCEPT !.buf = buf, !.h = v])

\* lines 187-193
VerifyBSI(sg, msg, r, s, W, c) ==
    LET n == CurveOf[c].order
        size == CurveOf[c].size \div 8
        rW == PointMul(r, W, c)
        Q == PointAdd(PointMul(s, CurveOf[c].generator, c), rW, c)
        fr0 == [EmptyFrame EXCEPT !.r = r, !.s = s, !.arith = TRUE, !.hashed = TRUE,
                                  !.buf = NewHasher]
        fr1 == [fr0 EXCEPT !.Q = Q]
    IN  IF ~FitsBytes(Q.x % n, size)
        THEN Out(Raise("OverflowError"), fr1)
        ELSE LET buf == Update(fr1.buf, msg \o ToBytes(Q.x % n, size))
                 v == IntFromBytes(Digest(sg.hasher, buf)) % n
             IN  Out(ReturnBool(v = r), [fr1 EXCEPT !.buf = buf, !.h = v])

\* lines 195-201
VerifyLIBSECP(sg, msg, r, s, W, c) ==
    LET n == CurveOf[c].order
        size == CurveOf[c].size \div 8
        fr0 == [EmptyFrame EXCEPT !.r = r, !.s = s, !.hashed = TRUE,
                                  !.buf = NewHasher]
    IN  IF ~FitsBytes(r, size) THEN Out(Raise("OverflowError"), fr0)
        ELSE LET buf == Update(fr0.buf, ToBytes(r, size) \o msg)
                 h == IntFromBytes(Digest(sg.hasher, buf))
                 hW == PointMul(h, W, c)
                 R == PointAdd(PointMul(s, CurveOf[c].generator, c), hW, c)
                 fr1 == [fr0 EXCEPT !.buf = buf, !.h = h, !.arith = TRUE]
                 v == R.x % n
             IN  Out(ReturnBool(v = r), [fr1 EXCEPT !.Q = R])

\* lines 149-203
VerifyOp(sg, msg, sig, pu_key) ==
    LET c == pu_key.curve
        n == CurveOf[c].order
        size == CurveOf[c].size \div 8
        rs == DecodeSig(sig, sg.fmt)
        r == rs[1]
        s == rs[2]
    IN  IF RangeReject(r, s, n, size)
        THEN Out(ReturnBool(FALSE), [EmptyFrame EXCEPT !.r = r, !.s = s])
        ELSE CASE sg.option = "ISO" -> VerifyISO(sg, msg, r, s, pu_key.W, c)
               [] sg.option = "ISOx" -> VerifyISOx(sg, msg, r, s, pu_key.W, c)
               [] sg.option = "BSI" -> VerifyBSI(sg, msg, r, s, pu_key.W, c)
               [] sg.option = "LIBSECP" ->
                      VerifyLIBSECP(sg, msg, r, s, pu_key.W, c)

(***************************************************************************)
(* The inputs of the calls.                                                *)
(***************************************************************************)
Options == {"ISO", "ISOx", "BSI", "LIBSECP"}
\* line 65
MaxTries == 10

Msgs == {<<b>> : b \in 0..MaxMsgByte}
PrivateKeys == [curve : CurveNames \cup {"None"}, d : 1..MaxD, W : {NoPoint}]
PublicKeys == {[curve |-> c, d |-> 0, W |-> PublicKeyOf(d, c)] : c \in CurveNames, d \in 1..MaxD}

\* ecrand.rnd(order) and the nonces a caller passes to sign_k: 1..order-1
Nonces(c) == IF c = "None" THEN {1} ELSE 1..(CurveOf[c].order - 1)

\* the r of a signature handed to verify: the scalars around 0..order, the
\* x coordinates of the group, and the values around the byte-width bound
RInputs(c) ==
    LET n == CurveOf[c].order
        B == Pow(256, CurveOf[c].size \div 8)
    IN  (0..(n + 1)) \cup {Multiple(c, k).x : k \in 1..(n - 1)} \cup {B - 1, B, B + 1}

SigInputs(fmt, c) ==
    {Malformed} \cup
    {EncodeSig(r, s, fmt) : r \in RInputs(c), s \in 0..(CurveOf[c].order + 1)}

(***************************************************************************)
(* The signer after __init__ (lines 57-66) and the calls on it.  pc is     *)
(* "idle" between calls, "sign" inside the loop of sign and "done" when a  *)
(* call has returned and its result is still at hand.  memo keeps the      *)
(* first sign_k call on a probe input, to compare later calls against.     *)
(***************************************************************************)
NoMemo == [has |-> FALSE, msg |-> <<>>, key |-> NoKey, k |-> 0, ret |-> Pending,
           between |-> FALSE]

\* the probe inputs: message <<0>>, private scalar 1 on a curve, nonce 1
IsProbe(msg, pv_key, k) == msg = <<0>> /\ pv_key.d = 1 /\ pv_key.curve # "None" /\ k = 1

\* the inputs of the remembered call
SameInputs(m, msg, pv_key, k) == m.has /\ m.msg = msg /\ m.key = pv_key /\ m.k = k

\* a call on other inputs has returned since the memo was taken
Touch(m) == IF m.has THEN [m EXCEPT !.between = TRUE] ELSE m

Init ==
    /\ signer \in [hasher : Hashers, option : Options, fmt : Formats, maxtries : {MaxTries}]
    /\ pc = "idle"
    /\ call = NoCall
    /\ i = 0
    /\ tries = 0
    /\ ret = Pending
    /\ frame = EmptyFrame
    /\ memo = NoMemo

\* sign_k, lines 83-91
SignK(msg, pv_key, k) ==
    /\ pc = "idle"
    /\ LET o == DoSign(signer, msg, pv_key, k)
       IN  /\ ret' = o.ret
           /\ frame' = o.frame
           /\ memo' = IF ~memo.has /\ IsProbe(msg, pv_key, k)
                      THEN [has |-> TRUE, msg |-> msg, key |-> pv_key, k |-> k,
                            ret |-> o.ret, between |-> FALSE]
                      ELSE IF SameInputs(memo, msg, pv_key, k) THEN memo
                      ELSE Touch(memo)
    /\ call' = [NoCall EXCEPT !.op = "sign_k", !.msg = msg, !.key = pv_key, !.k = k]
    /\ pc' = "done"
    /\ UNCHANGED <<signer, i, tries>>

\* sign, line 75 and the entry of the loop of line 76
SignCall(msg, pv_key) ==
    /\ pc = "idle"
    /\ call' = [NoCall EXCEPT !.op = "sign", !.msg = msg, !.key = pv_key]
    /\ IF pv_key.curve = "None"
       THEN /\ ret' = Raise("AttributeError")
            /\ pc' = "done"
            /\ i' = 0
            /\ memo' = Touch(memo)
       ELSE /\ ret' = Pending
            /\ pc' = "sign"
            /\ i' = 1
            /\ memo' = memo
    /\ UNCHANGED <<signer, tries, frame>>

\* the loop of sign counting self.maxtries down in place of the loop index
SignIterCountsDown(k) ==
    /\ pc = "sign"
    /\ i < signer.maxtries
    /\ LET o == DoSign(signer, call.msg, call.key, k)
       IN  /\ frame' = o.frame
           /\ IF o.ret.kind = "None"
              THEN /\ ret' = Pending
                   /\ pc' = "sign"
                   /\ signer' = [signer EXCEPT !.maxtries = @ - 1]
                   /\ memo' = memo
              ELSE /\ ret' = o.ret
                   /\ pc' = "done"
                   /\ signer' = signer
                   /\ memo' = Touch(memo)
    /\ call' = [call EXCEPT !.k = k]
    /\ tries' = tries + 1
    /\ i' = i

\* sign, one iteration of the loop, lines 76-80
SignIter(k) ==
    /\ pc = "sign"
    /\ i < signer.maxtries
    /\ LET o == DoSign(signer, call.msg, call.key, k)
       IN  /\ frame' = o.frame
           /\ IF o.ret.kind = "None"
              THEN /\ ret' = Pending
                   /\ pc' = "sign"
                   /\ i' = i + 1
                   /\ memo' = memo
              ELSE /\ ret' = o.ret
                   /\ pc' = "done"
                   /\ i' = i
                   /\ memo' = Touch(memo)
    /\ call' = [call EXCEPT !.k = k]
    /\ tries' = tries + 1
    /\ UNCHANGED signer

\* sign, the loop is exhausted, line 81
SignExhaust ==
    /\ pc = "sign"
    /\ i >= signer.maxtries
    /\ ret' = ReturnNone
    /\ pc' = "done"
    /\ memo' = Touch(memo)
    /\ UNCHANGED <<signer, call, i, tries, frame>>

\* verify, lines 149-203
Verify(msg, sig, pu_key) ==
    /\ pc = "idle"
    /\ LET o == VerifyOp(signer, msg, sig, pu_key)
       IN  /\ ret' = o.ret
           /\ frame' = o.frame
    /\ call' = [NoCall EXCEPT !.op = "verify", !.msg = msg, !.key = pu_key, !.sig = sig]
    /\ pc' = "done"
    /\ memo' = Touch(memo)
    /\ UNCHANGED <<signer, i, tries>>

\* verify of the signature the sign or sign_k call just returned, under
\* the public key of its private key (lines 225-228)
VerifyOwn ==
    /\ pc = "done"
    /\ call.op \in {"sign", "sign_k"}
    /\ ret.kind = "sig"
    /\ LET pu_key == [curve |-> call.key.curve, d |-> call.key.d,
                      W |-> PublicKeyOf(call.key.d, call.key.curve)]
           o == VerifyOp(signer, call.msg, ret.sig, pu_key)
       IN  /\ ret' = o.ret
           /\ frame' = o.frame
           /\ call' = [op |-> "verify", msg |-> call.msg, key |-> pu_key, k |-> call.k,
                       sig |-> ret.sig, own |-> call.op]
    /\ i' = 0
    /\ tries' = 0
    /\ memo' = Touch(memo)
    /\ UNCHANGED <<signer, pc>>

\* the caller drops the result and the locals of the returned call
Forget ==
    /\ pc = "done"
    /\ pc' = "idle"
    /\ call' = NoCall
    /\ i' = 0
    /\ tries' = 0
    /\ ret' = Pending
    /\ frame' = EmptyFrame
    /\ UNCHANGED <<signer, memo>>

Next ==
    \/ /\ pc = "idle"
       /\ \E msg \in Msgs, pv_key \in PrivateKeys :
              \E k \in Nonces(pv_key.curve) : SignK(msg, pv_key, k)
    \/ /\ pc = "idle"
       /\ \E msg \in Msgs, pv_key \in PrivateKeys : SignCall(msg, pv_key)
    \/ /\ pc = "sign"
       /\ \E k \in Nonces(call.key.curve) : SignIter(k)
    \/ SignExhaust
    \/ /\ pc = "idle"
       /\ \E msg \in Msgs, pu_key \in PublicKeys :
              \E sig \in SigInputs(signer.fmt, pu_key.curve) : Verify(msg, sig, pu_key)
    \/ VerifyOwn
    \/ Forget

Spec == Init /\ [][Next]_vars

(***************************************************************************)
(* Properties.                                                             *)
(***************************************************************************)
Returned(op) == pc = "done" /\ call.op = op

\* the curve of the current call, its order and byte width
CallOrder == CurveOf[call.key.curve].order
CallSize == CurveOf[call.key.curve].size \div 8

\* the returned verify call met no point at infinity: its reconstructed point
\* is finite and so is the multiple of W it added
FinitePoints ==
    /\ ~frame.Q.inf
    /\ IF signer.option = "LIBSECP" THEN frame.h % CallOrder # 0
       ELSE frame.r % CallOrder # 0

\* C1: a signature that sign_k returned verifies true under the public key
\* of the private key that signed it, for every variant (stated for the
\* verifications that meet no point at infinity).
C1_RoundTrip ==
    (Returned("verify") /\ call.own = "sign_k" /\ FinitePoints) => ret = ReturnBool(TRUE)

\* the decoded pair of the signature handed to the current verify call
DecodedR == DecodeSig(call.sig, signer.fmt)[1]
DecodedS == DecodeSig(call.sig, signer.fmt)[2]

OutOfRange ==
    \/ DecodedR = None
    \/ DecodedR > Pow(256, CallSize) - 1
    \/ DecodedS = 0
    \/ DecodedS > CallOrder - 1

\* C2: verify returns False on a null r, an r above 2^(8*size) - 1, s = 0 or
\* s > n - 1, and has then done no point arithmetic and no hashing.
C2_BoundaryRejection ==
    (Returned("verify") /\ OutOfRange) =>
        /\ ret = ReturnBool(FALSE)
        /\ ~frame.arith
        /\ ~frame.hashed

\* a verify call rejected s = n + 1 although the pair (r, 1), which gives the
\* same point s*G, is accepted
C2_Witness ==
    /\ Returned("verify")
    /\ DecodedR # None
    /\ DecodedS = CallOrder + 1
    /\ ret = ReturnBool(FALSE)
    /\ VerifyOp(signer, call.msg, EncodeSig(DecodedR, 1, signer.fmt), call.key).ret
           = ReturnBool(TRUE)

\* C3: sign returns None only after maxtries = 10 attempts were rejected, and
\* never makes more than 10 attempts.
C3_TenAttempts ==
    /\ tries <= signer.maxtries
    /\ (Returned("sign") /\ ret = ReturnNone) => tries = signer.maxtries

\* C4: with a private key that has no curve, sign and sign_k raise the
\* ECPyException of line 95 and no nonce is drawn.
C4_MissingCurve ==
    (pc = "done" /\ call.op \in {"sign", "sign_k"} /\ call.key.curve = "None") =>
        /\ ret = Raise("ECPyException")
        /\ tries = 0

\* the signer produces the signature of the current verify call for its
\* message and key with some nonce
Producible ==
    \E k \in Nonces(call.key.curve) :
        DoSign(signer, call.msg,
               [curve |-> call.key.curve, d |-> LogOf(call.key.W, call.key.curve),
                W |-> NoPoint], k).ret = ReturnSig(call.sig)

\* C5: on a signature that is not one the signer produces for the message
\* and key, verify does not raise: it completes and returns a boolean, which
\* is False unless the pair satisfies the variant's formula (stated for the
\* verifications that meet no point at infinity).
C5_VerifyNeverRaises ==
    (Returned("verify") /\ ~Producible /\ (frame.arith => FinitePoints)) =>
        ret.kind = "bool"

\* the rejection condition of the variant on the locals of _do_sign
Rejects ==
    IF signer.option = "LIBSECP"
    THEN frame.h = 0 \/ frame.h > CallOrder
    ELSE frame.r = 0 \/ frame.s = 0

\* C6: with a curve-bound key sign_k returns None when r = 0 or s = 0 (h = 0
\* or h > n under LIBSECP), the encoded (r, s) otherwise, and never raises.
C6_RejectionCorrectness ==
    (Returned("sign_k") /\ call.key.curve # "None") =>
        /\ ret.kind # "raise"
        /\ frame.hashed
        /\ IF Rejects THEN ret = ReturnNone
           ELSE ret = ReturnSig(EncodeSig(frame.r, frame.s, signer.fmt))

\* the signer part of C7: an odd Q.y makes sign_k sign with n - k
C7_SignerUsesNegatedNonce ==
    (Returned("sign_k") /\ signer.option = "LIBSECP" /\ ret.kind = "sig"
        /\ PointMul(call.k, CurveOf[call.key.curve].generator, call.key.curve).y % 2 = 1) =>
        LET k2 == CallOrder - call.k
        IN  /\ frame.k = k2
            /\ ret.sig.r = PointMul(k2, CurveOf[call.key.curve].generator, call.key.curve).x
            /\ ret.sig.s = (k2 - frame.h * call.key.d) % CallOrder

\* C7: under LIBSECP an odd Q.y makes sign_k sign with n - k, and whenever
\* verify returns True the point R = s*G + h*W has an even y (stated for the
\* verifications that meet no point at infinity).
C7_ParityNormalization ==
    /\ C7_SignerUsesNegatedNonce
    /\ (Returned("verify") /\ signer.option = "LIBSECP" /\ ret = ReturnBool(TRUE)
           /\ FinitePoints) =>
           frame.Q.y % 2 = 0

\* a later sign_k call on the remembered inputs returns the remembered output
MemoAgrees ==
    (Returned("sign_k") /\ SameInputs(memo, call.msg, call.key, call.k)) => ret = memo.ret

\* C8: no call changes the signer's hasher, option, fmt or maxtries, and a
\* repeated sign_k call returns what the first call on these inputs returned.
C8_Determinism == [][signer' = signer /\ MemoAgrees']_vars

\* a repeated sign_k call returned a signature after calls on other inputs
C8_Witness ==
    /\ Returned("sign_k")
    /\ SameInputs(memo, call.msg, call.key, call.k)
    /\ memo.between
    /\ ret.kind = "sig"
    /\ ret = memo.ret

\* the values the returned call serialized, or tried to serialize, to size bytes
Serialized ==
    IF ~frame.hashed THEN {}
    ELSE IF signer.option = "ISO" /\ frame.arith THEN {frame.Q.x, frame.Q.y}
    ELSE IF signer.option = "ISOx" /\ frame.arith THEN {frame.Q.x}
    ELSE IF signer.option = "BSI" /\ frame.arith THEN {frame.Q.x % CallOrder}
    ELSE IF signer.option = "LIBSECP" /\ call.op = "verify" THEN {frame.r}
    ELSE IF signer.option = "LIBSECP" THEN {frame.Q.x}
    ELSE {}

\* C9: every value serialized to size = bits >> 3 bytes is below 2^(8*size),
\* so no call fails with an overflow of the fixed width.
C9_CoordinateWidth ==
    pc = "done" =>
        /\ \A v \in Serialized : v < Pow(256, CallSize)
        /\ ret # Raise("OverflowError")

\* C10: a signature returned by sign or sign_k has 0 <= r <= 2^(8*size) - 1
\* and 1 <= s <= n - 1.
C10_SignatureInRange ==
    (pc = "done" /\ call.op \in {"sign", "sign_k"} /\ ret.kind = "sig") =>
        /\ 0 <= ret.sig.r
        /\ ret.sig.r <= Pow(256, CallSize) - 1
        /\ 1 <= ret.sig.s
        /\ ret.sig.s <= CallOrder - 1

====
